---- MODULE Spec2Model ----
(***************************************************************************)
(* Blink <-> MQTT bridge (app/main.py, app/blink_service.py).              *)
(*                                                                         *)
(* The event loop runs one coroutine step at a time: every action below    *)
(* whose name is not on_message is one uninterrupted run of a coroutine    *)
(* from one suspension point (an await on the vendor library, on a file    *)
(* read or on asyncio.sleep) to the next.  on_message is the callback of   *)
(* the MQTT client's network thread.                                       *)
(*                                                                         *)
(* The vendor library (blinkpy) is opaque: each awaited vendor call either *)
(* returns or raises, chosen by the environment.  A vendor refresh that    *)
(* returns copies the cloud's devices into the library's homescreen when   *)
(* the library holds a logged-in session; one that raises leaves the       *)
(* homescreen as it was.                                                   *)
(***************************************************************************)
EXTENDS Integers, Sequences, FiniteSets, Bags, TLC

\* ---------------------------------------------------------------- bounds
MaxTasks == 1
MaxFileKeys == 1
MaxDevices == 2

\* ------------------------------------------------------- program constants
TWO_FA_WAIT == 5
RETRY_DELAY == 30
DEFAULT_POLL_INTERVAL == 3600

\* ------------------------------------------------------------ small helpers
RECURSIVE Concat(_)
Concat(ss) == IF ss = <<>> THEN <<>> ELSE Head(ss) \o Concat(Tail(ss))

\* ===================================================================== YAML
\* A configuration value is a YAML scalar: t is its Python type, v its text.
IntTexts == {"60", "3600", "1883"}
IntOf(text) ==
  CASE text = "60" -> 60
    [] text = "3600" -> 3600
    [] text = "1883" -> 1883
    [] OTHER -> 0

PyInt(text) == [t |-> "int", v |-> text]
PyStr(text) == [t |-> "str", v |-> text]
PyNone == [t |-> "none", v |-> ""]

\* yaml.dump of one scalar: an int is written plain; a str is written plain
\* unless a plain scalar of that text would be read back as another type.
yaml_dump_scalarUnquoted(val) ==
  IF val.t = "none" THEN [style |-> "plain", text |-> "null"]
  ELSE [style |-> "plain", text |-> val.v]

yaml_dump_scalar(val) ==
  CASE val.t = "int" -> [style |-> "plain", text |-> val.v]
    [] val.t = "none" -> [style |-> "plain", text |-> "null"]
    [] OTHER ->
         IF val.v \in IntTexts \cup {"", "null"}
         THEN [style |-> "quoted", text |-> val.v]
         ELSE [style |-> "plain", text |-> val.v]

\* yaml.safe_load of one scalar token.
yaml_load_scalar(tok) ==
  IF tok.style = "quoted" THEN PyStr(tok.text)
  ELSE IF tok.text \in IntTexts THEN PyInt(tok.text)
  ELSE IF tok.text \in {"", "null"} THEN PyNone
  ELSE PyStr(tok.text)

EmptyMap == [k \in {} |-> PyNone]

\* The config file: missing, not loadable as a mapping (a YAML error, or a
\* document dict.update rejects), an empty document, or a mapping of tokens.
FileMissing == [kind |-> "missing", m |-> EmptyMap]
FileGarbage == [kind |-> "garbage", m |-> EmptyMap]
FileEmpty == [kind |-> "empty", m |-> EmptyMap]
FileMap(m) == [kind |-> "map", m |-> m]

\* ConfigManager.__init__'s defaults (the environment variables unset).
ConfigDefaults ==
  [mqtt_broker |-> PyStr("192.168.0.100"),
   mqtt_port |-> PyInt("1883"),
   mqtt_username |-> PyStr(""),
   mqtt_password |-> PyStr(""),
   poll_interval |-> PyInt("3600"),
   username |-> PyStr(""),
   password |-> PyStr("")]

\* dict.update(other)
DictUpdate(d, other) ==
  [k \in (DOMAIN d) \cup (DOMAIN other) |->
     IF k \in DOMAIN other THEN other[k] ELSE d[k]]

\* ConfigManager.load: the new self.data.
ConfigLoadNoMerge(data, file) ==
  IF file.kind = "map"
  THEN [k \in DOMAIN file.m |-> yaml_load_scalar(file.m[k])]
  ELSE data

ConfigLoad(data, file) ==
  IF file.kind = "map"
  THEN DictUpdate(data, [k \in DOMAIN file.m |-> yaml_load_scalar(file.m[k])])
  ELSE data   \* missing: skipped; garbage: the exception is logged; empty: {}

\* ConfigManager.save: the new file.
ConfigSave(data) == FileMap([k \in DOMAIN data |-> yaml_dump_scalar(data[k])])

\* cfg.data.get("poll_interval", 3600)
PollInterval(data) ==
  IF "poll_interval" \in DOMAIN data
  THEN IntOf(data["poll_interval"].v)
  ELSE DEFAULT_POLL_INTERVAL

\* =================================================================== vendor
\* The cloud's devices, by homescreen category.
CloudHomescreen(armed) ==
  [networks |-> <<[armed |-> armed]>>,
   owls |-> <<[id |-> 202, name |-> "Mini", status |-> "offline"]>>,
   cameras |-> <<[id |-> 101, name |-> "Front", status |-> "online"]>>,
   doorbells |-> <<>>,
   chickadees |-> <<>>]

\* Blink().homescreen right after construction: {}
EmptyHomescreen == [k \in {} |-> <<>>]

\* homescreen.get(key, [])
HsGet(hs, key) == IF key \in DOMAIN hs THEN hs[key] ELSE <<>>

\* str(dev.get('id')): ids are JSON numbers, a missing id gives 'None'
str(x) ==
  CASE x = 101 -> "101"
    [] x = 202 -> "202"
    [] OTHER -> "other"
DevId(dev) == IF "id" \in DOMAIN dev THEN str(dev.id) ELSE "None"

\* ------------------------------------------------------------- status record
StatusKeys == {"armed", "status_str", "cameras", "raw_json"}

\* main.py:25
Placeholder ==
  [keys |-> {"armed", "status_str", "cameras"},
   armed |-> FALSE, status_str |-> "Unknown", cameras |-> <<>>]

\* the dict {} : no key at all
EmptyDict ==
  [keys |-> {}, armed |-> FALSE, status_str |-> "", cameras |-> <<>>]

\* blink_service.py:183-187, the categories in another order
RawDevicesCamerasFirst(hs) ==
  Concat(<<HsGet(hs, "cameras"), HsGet(hs, "owls"), HsGet(hs, "doorbells"),
           HsGet(hs, "chickadees")>>)

RawDevices(hs) ==
  Concat(<<HsGet(hs, "owls"), HsGet(hs, "cameras"), HsGet(hs, "doorbells"),
           HsGet(hs, "chickadees")>>)

\* dev.get('name', 'Unknown')
DevName(dev) == IF "name" \in DOMAIN dev THEN dev.name ELSE "Unknown"

\* blink_service.py:190-202: the name, and the type where the name is not unique
DisplayName(raw, i) ==
  [name |-> DevName(raw[i]),
   type |-> IF Cardinality({j \in DOMAIN raw : DevName(raw[j]) = DevName(raw[i])}) > 1
            THEN (IF "type" \in DOMAIN raw[i] THEN raw[i].type ELSE "cam")
            ELSE ""]

\* BlinkService.get_status, after its own refresh attempt (the serial, the
\* temperature and the debug JSON of an entry are left out)
get_status(b, hs) ==
  IF b = "None" THEN EmptyDict
  ELSE
    LET is_armed == \E i \in DOMAIN HsGet(hs, "networks") :
                      /\ "armed" \in DOMAIN hs.networks[i]
                      /\ hs.networks[i].armed = TRUE
        raw == RawDevices(hs)
    IN [keys |-> StatusKeys,
        armed |-> is_armed,
        status_str |-> IF is_armed THEN "Armed" ELSE "Disarmed",
        cameras |-> [i \in DOMAIN raw |->
                       [id |-> DevId(raw[i]),
                        name |-> DisplayName(raw, i),
                        online |-> IF "status" \in DOMAIN raw[i]
                                   THEN raw[i].status # "offline"
                                   ELSE TRUE]]]


\* ===================================================================== MQTT
\* A payload is a tuple of bytes; "0xFF" stands for a byte that is no UTF-8.
Undecodable == {"0xFF"}

\* bytes.decode(): raises UnicodeDecodeError on a byte that is no UTF-8
decode(bytes) ==
  IF \E i \in DOMAIN bytes : bytes[i] \in Undecodable
  THEN [ok |-> FALSE, s |-> <<>>]
  ELSE [ok |-> TRUE, s |-> bytes]

UpperChar(c) ==
  CASE c = "a" -> "A" [] c = "r" -> "R" [] c = "m" -> "M" [] c = "d" -> "D"
    [] c = "i" -> "I" [] c = "s" -> "S" [] c = "w" -> "W" [] c = "y" -> "Y"
    [] OTHER -> c

\* str.upper()
upper(s) == [i \in DOMAIN s |-> UpperChar(s[i])]

ARM == <<"A", "R", "M">>
ARM_AWAY == <<"A", "R", "M", "_", "A", "W", "A", "Y">>
DISARM == <<"D", "I", "S", "A", "R", "M">>

\* A topic is the tuple of its levels.
CommandTopic == <<"blink", "command">>
SnapTopic(id) == <<"blink", "camera", id, "snap">>

\* "snap" in topic
SnapInTopic(topic) == \E i \in DOMAIN topic : topic[i] = "snap"

Task(kind, arg) == [kind |-> kind, arg |-> arg, pc |-> "new"]

\* The coroutines one on_message call hands to run_coroutine_threadsafe.
on_message_calls(topic, payload) ==
  LET d == decode(payload)      \* main.py:84 raises before anything is scheduled
      p == upper(d.s)
  IN IF ~d.ok THEN <<>>
     ELSE (IF topic = CommandTopic
           THEN (IF p \in {ARM, ARM_AWAY} THEN <<Task("perform_action", "arm")>>
                 ELSE IF p = DISARM THEN <<Task("perform_action", "disarm")>>
                 ELSE <<>>)
           ELSE <<>>)
          \o (IF SnapInTopic(topic) /\ Len(topic) >= 3   \* [2] else IndexError, passed
              THEN <<Task("trigger_snap", topic[3])>>
              ELSE <<>>)

NoMsg == [topic |-> <<>>, payload |-> <<>>]

\* The messages the broker delivers: the two subscriptions of on_connect.
Payloads ==
  {ARM, <<"a", "r", "m">>, ARM_AWAY, <<"A", "r", "m", "_", "a", "w", "a", "y">>,
   DISARM, <<"d", "i", "s", "a", "r", "m">>, <<"O", "N">>, <<>>, <<"0xFF">>}
SnapIds == {"101", "202", "999"}
Topics == {CommandTopic} \cup {SnapTopic(id) : id \in SnapIds}

\* ==================================================================== state
VARIABLES
  system_state,   \* main.py:26
  latest_data,    \* main.py:25
  running,        \* main.py:27
  stopped,        \* the lifespan's shutdown phase has run
  login_args,     \* the username and password blink_svc.login is called with
  cfg_data,       \* cfg.data
  cfg_file,       \* the YAML file at CONFIG_PATH
  cfg_op,         \* the last ConfigManager operation
  session,        \* blink_svc.session: "None", "open" or "closed"
  blink,          \* blink_svc.blink: "None" or "Blink"
  auth,           \* blink_svc.blink.auth: the Auth object login made, if any
  authed,         \* the vendor library holds a logged-in session
  homescreen,     \* blink_svc.blink.homescreen
  creds_file,     \* the file at CREDS_PATH: "absent", "valid" or "corrupt"
  cloud_armed,    \* the cloud's arm state
  poll_pc,        \* where poll_blink is suspended
  poll_cont,      \* which call of update_data poll_blink is in
  res,            \* poll_blink's res
  sleep_dur,      \* the delay of the asyncio.sleep poll_blink is in
  logins,         \* parity of the number of blink_svc.login() calls
  tasks,          \* the other coroutines on the event loop
  mqtt_msg,       \* the message handled if the last step was on_message's
  pub_state,      \* retained message on blink/state
  pub_status,     \* retained message on blink/status
  pub_count       \* parity of the number of publish_state calls that published

cfgVars == <<cfg_data, cfg_file, cfg_op>>
lifeVars == <<running, stopped, login_args>>
vendorVars == <<session, blink, auth, authed, homescreen, creds_file, cloud_armed>>
pollVars == <<poll_pc, poll_cont, res, sleep_dur, logins>>
pubVars == <<pub_state, pub_status, pub_count>>
vars == <<system_state, latest_data, lifeVars, cfgVars, vendorVars, pollVars,
          tasks, mqtt_msg, pubVars>>

\* An Auth object: id tells one object from the next, data is the auth_data
\* it was made from ("file": the credentials file, "pair": username/password).
AuthIds == {1, 2}
NoAuth == [id |-> 0, data |-> "none"]
NextAuth(a, data) ==
  [id |-> IF a.id + 1 \in AuthIds THEN a.id + 1 ELSE 1, data |-> data]

\* poll_blink calls blink_svc.login() without arguments: both are None.
NoArgs == [username |-> "", password |-> ""]

\* The module-level statements of main.py, but for cfg.
InitService ==
  /\ system_state = "STARTING"
  /\ latest_data = Placeholder
  /\ running = TRUE
  /\ stopped = FALSE
  /\ session = "None"
  /\ blink = "None"
  /\ auth = NoAuth
  /\ authed = FALSE
  /\ homescreen = EmptyHomescreen
  /\ creds_file \in {"absent", "valid", "corrupt"}
  /\ cloud_armed = FALSE
  /\ poll_pc = "start"
  /\ poll_cont = "none"
  /\ res = "none"
  /\ sleep_dur = 0
  /\ logins = 0
  /\ tasks = EmptyBag
  /\ mqtt_msg = NoMsg
  /\ pub_state = "none"
  /\ pub_status = "none"
  /\ pub_count = 0

\* cfg = ConfigManager(CONFIG_PATH): the defaults, then load()
Init ==
  /\ InitService
  /\ login_args = NoArgs
  /\ cfg_file = FileMissing
  /\ cfg_data = ConfigLoad(ConfigDefaults, cfg_file)
  /\ cfg_op = "init"


\* ================================================================ update_data
\* blink.refresh(force_cache=True): the homescreen after the call
RefreshedHomescreen(ok) ==
  IF ok /\ authed /\ session = "open" THEN CloudHomescreen(cloud_armed)
  ELSE homescreen

\* One awaited refresh of the vendor library, returning (ok) or raising.
VendorRefresh(ok) == homescreen' = RefreshedHomescreen(ok)

\* MqttHandler.publish_state raises KeyError on a status without "armed".
PublishRaises(ld) == "armed" \notin ld.keys

\* MqttHandler.publish_state
publish_state(ld) ==
  IF PublishRaises(ld) THEN UNCHANGED pubVars
  ELSE /\ pub_state' = (IF ld.armed THEN "armed_away" ELSE "disarmed")
       /\ pub_status' = "online"
       /\ pub_count' = 1 - pub_count

\* update_data, when blink_svc.refresh() raised: except Exception ... pass
LatestAfterFailedRefreshStored(ld, hs) == get_status("Blink", hs)

LatestAfterFailedRefresh(ld, hs) == ld

\* update_data never lets an exception out (main.py:143-148), so the
\* except branch of the keep-alive poll (main.py:203-204) is not entered.
update_data_raises(ok) == FALSE

\* update_data after its refresh returned and get_status made its own
\* refresh attempt (ok or swallowed): main.py:140-142.  st is system_state
\* after the call.
StateAfterUpdate(ld, st) == IF PublishRaises(ld) THEN st ELSE "CONNECTED"

\* main.py:140-141, after get_status's own refresh attempt
StoreAndPublish(ok) ==
  /\ latest_data' = get_status(blink, RefreshedHomescreen(ok))
  /\ publish_state(get_status(blink, RefreshedHomescreen(ok)))

UpdateDataStore(ok) ==
  /\ VendorRefresh(ok)
  /\ StoreAndPublish(ok)

\* ================================================================= poll_blink
\* main.py:179-186
StateForLoginAll2FA(r) ==
  IF r = "SUCCESS" THEN "CONNECTED" ELSE "WAITING_2FA"

StateForLogin(r) ==
  CASE r = "SUCCESS" -> "CONNECTED"
    [] r = "2FA_REQUIRED" -> "WAITING_2FA"
    [] OTHER -> "ERROR"

\* main.py:173
PausedFor2FANever(st) == FALSE

PausedFor2FA(st) == st = "WAITING_2FA"

\* main.py:191-192
IntervalSleep ==
  /\ poll_pc' = "sleep_interval"
  /\ sleep_dur' = PollInterval(cfg_data)
  /\ poll_cont' = "none"

\* poll_blink from the return of blink_svc.login() to its next suspension.
LoginReturn(r) ==
  /\ res' = r
  /\ system_state' = StateForLogin(r)
  /\ IF r = "SUCCESS"
     THEN /\ poll_pc' = "ud_refresh"         \* await update_data()
          /\ poll_cont' = "after_login"
          /\ sleep_dur' = 0
     ELSE IF r = "2FA_REQUIRED"
     THEN IntervalSleep                      \* no continue: falls to main.py:191
     ELSE /\ poll_pc' = "sleep_retry"
          /\ sleep_dur' = RETRY_DELAY
          /\ poll_cont' = "none"

\* login's auth_data (blink_service.py:37-45): the loaded file if it gave
\* any, else the supplied pair if both are given, else nothing.
AuthDataPairFirst(loaded, args) ==
  IF args.username # "" /\ args.password # "" THEN "pair"
  ELSE IF loaded THEN "file"
  ELSE "none"

AuthData(loaded, args) ==
  IF loaded THEN "file"
  ELSE IF args.username # "" /\ args.password # "" THEN "pair"
  ELSE "none"

\* login from blink_service.py:44 to its return of CONFIG_REQUIRED or its
\* await of blink.start(); a and ad are blink.auth and the library's login
\* flag on arrival, st is system_state.
LoginAuth(loaded, st, a, ad) ==
  IF AuthData(loaded, login_args) = "none"
  THEN /\ LoginReturn("CONFIG_REQUIRED")
       /\ auth' = a
       /\ authed' = ad
  ELSE /\ auth' = NextAuth(a, AuthData(loaded, login_args))   \* Auth(auth_data, ...)
       /\ authed' = FALSE
       /\ poll_pc' = "login_start"           \* await self.blink.start()
       /\ system_state' = st
       /\ UNCHANGED <<poll_cont, res, sleep_dur>>

\* start_session makes a new session and Blink object unless one is open.
NewSession == session # "open"

\* blink_svc.login() from its call to its first suspension or return.
LoginCall(st, hs) ==
  /\ logins' = 1 - logins
  /\ session' = "open"
  /\ blink' = "Blink"
  /\ homescreen' = IF NewSession THEN EmptyHomescreen ELSE hs
  /\ IF creds_file = "absent"                \* os.path.exists: no await
     THEN LoginAuth(FALSE, st, IF NewSession THEN NoAuth ELSE auth,
                    IF NewSession THEN FALSE ELSE authed)
     ELSE /\ poll_pc' = "login_load"         \* await json_load(...)
          /\ system_state' = st
          /\ auth' = IF NewSession THEN NoAuth ELSE auth
          /\ authed' = IF NewSession THEN FALSE ELSE authed
          /\ UNCHANGED <<poll_cont, res, sleep_dur>>

\* poll_blink from the head of its loop (main.py:172) to its next
\* suspension; st is system_state and hs the homescreen on arrival.  Sets
\* system_state, pollVars, session, blink, auth, authed and homescreen.
PollTop(st, hs) ==
  IF ~running
  THEN /\ poll_pc' = "done"
       /\ system_state' = st
       /\ homescreen' = hs
       /\ UNCHANGED <<poll_cont, res, sleep_dur, logins, session, blink, auth,
                      authed>>
  ELSE IF PausedFor2FA(st)
  THEN /\ poll_pc' = "sleep_2fa"
       /\ sleep_dur' = TWO_FA_WAIT
       /\ system_state' = st
       /\ homescreen' = hs
       /\ UNCHANGED <<poll_cont, res, logins, session, blink, auth, authed>>
  ELSE IF st # "CONNECTED"
  THEN LoginCall(st, hs)
  ELSE /\ IntervalSleep
       /\ system_state' = st
       /\ homescreen' = hs
       /\ UNCHANGED <<res, logins, session, blink, auth, authed>>

\* poll_blink after update_data returned; st is system_state on return.
AfterUpdate(ok, st, hs) ==
  IF poll_cont = "after_login"
  THEN /\ IntervalSleep
       /\ system_state' = st
       /\ homescreen' = hs
       /\ UNCHANGED <<res, logins, session, blink, auth, authed>>
  ELSE IF update_data_raises(ok)
  THEN PollTop("ERROR", hs)                  \* main.py:203-204
  ELSE PollTop(st, hs)

\* The poll task's first run, and its wake-ups from the 5 s and 30 s sleeps.
PollWake ==
  /\ poll_pc \in {"start", "sleep_2fa", "sleep_retry"}
  /\ PollTop(system_state, homescreen)
  /\ mqtt_msg' = NoMsg
  /\ UNCHANGED <<latest_data, lifeVars, cfgVars, creds_file, cloud_armed,
                 tasks, pubVars>>

\* Wake-up from the interval sleep: main.py:194.
PollWakeInterval ==
  /\ poll_pc = "sleep_interval"
  /\ IF system_state = "CONNECTED"
     THEN /\ poll_pc' = "ud_refresh"
          /\ poll_cont' = "after_poll"
          /\ sleep_dur' = 0
          /\ UNCHANGED <<system_state, res, logins, session, blink, auth,
                         authed, homescreen>>
     ELSE PollTop(system_state, homescreen)
  /\ mqtt_msg' = NoMsg
  /\ UNCHANGED <<latest_data, lifeVars, cfgVars, creds_file, cloud_armed,
                 tasks, pubVars>>

\* login(): json_load returned; blink_service.py:44-53.
PollLoginLoad ==
  /\ poll_pc = "login_load"
  /\ LoginAuth(creds_file = "valid", system_state, auth, authed)
  /\ mqtt_msg' = NoMsg
  /\ UNCHANGED <<latest_data, lifeVars, cfgVars, session, blink, homescreen,
                 creds_file, cloud_armed, logins, tasks, pubVars>>

\* blink.save(creds_path) after an authentication that succeeded
CredsAfterAuthAlways(ok, file) == "valid"

CredsAfterAuth(ok, file) == IF ok THEN "valid" ELSE file

\* login(): blink.start() returned or raised; blink_service.py:52-63.
PollLoginStart(r) ==
  /\ poll_pc = "login_start"
  /\ IF r = "SUCCESS"
     THEN /\ authed' = TRUE
          /\ homescreen' = CloudHomescreen(cloud_armed)
     ELSE UNCHANGED <<authed, homescreen>>
  /\ creds_file' = CredsAfterAuth(r = "SUCCESS", creds_file)
  /\ LoginReturn(r)
  /\ mqtt_msg' = NoMsg
  /\ UNCHANGED <<latest_data, lifeVars, cfgVars, session, blink, auth,
                 cloud_armed, logins, tasks, pubVars>>

\* update_data in the poll task: blink_svc.refresh() returned or raised.
PollUpdateRefresh(ok) ==
  /\ poll_pc = "ud_refresh"
  /\ IF ok
     THEN /\ poll_pc' = "ud_status"          \* get_status: await self.refresh()
          /\ VendorRefresh(ok)
          /\ UNCHANGED <<system_state, latest_data, poll_cont, res, sleep_dur,
                         logins, session, blink, auth, authed>>
     ELSE /\ latest_data' = LatestAfterFailedRefresh(latest_data, homescreen)
          /\ AfterUpdate(ok, system_state, RefreshedHomescreen(ok))
  /\ mqtt_msg' = NoMsg
  /\ UNCHANGED <<lifeVars, cfgVars, creds_file, cloud_armed, tasks, pubVars>>

\* update_data in the poll task: get_status returned; main.py:140-142.
PollUpdateStatus(ok) ==
  /\ poll_pc = "ud_status"
  /\ StoreAndPublish(ok)
  /\ AfterUpdate(TRUE, StateAfterUpdate(get_status(blink, RefreshedHomescreen(ok)),
                                        system_state),
                 RefreshedHomescreen(ok))
  /\ mqtt_msg' = NoMsg
  /\ UNCHANGED <<lifeVars, cfgVars, creds_file, cloud_armed, tasks>>


\* ============================================== perform_action, trigger_snap
\* tasks is the bag of the coroutines scheduled on the event loop or
\* suspended in it.  Once a coroutine is inside update_data nothing of its
\* caller is left to run, so it is kept as an update_data coroutine.
One(t) == SetToBag({t})
Finished(t) == tasks (-) One(t)
Moved(t, pc) ==
  (tasks (-) One(t)) (+)
  One(IF pc \in {"ud_refresh", "ud_status"}
      THEN [kind |-> "update_data", arg |-> "", pc |-> pc]
      ELSE [t EXCEPT !.pc = pc])
NumTasks == BagCardinality(tasks)
RECURSIVE SeqToBag(_)
SeqToBag(q) == IF q = <<>> THEN EmptyBag ELSE One(Head(q)) (+) SeqToBag(Tail(q))

\* the ids of self.blink.cameras: the library's own camera objects
LibCameraIds == IF authed THEN {str(101)} ELSE {}

\* str(item.get('id')) of the devices in the raw homescreen lists
HomescreenIds(hs) == {DevId(RawDevices(hs)[i]) : i \in DOMAIN RawDevices(hs)}

\* perform_action up to its first suspension.  Without a vendor session
\* arm_system returns False, refresh() returns and get_status returns {}:
\* update_data runs through without suspending.
PerformActionStart(t) ==
  /\ t.kind = "perform_action" /\ t.pc = "new"
  /\ IF blink = "None"
     THEN /\ latest_data' = get_status(blink, homescreen)
          /\ publish_state(get_status(blink, homescreen))
          /\ system_state' = StateAfterUpdate(get_status(blink, homescreen), system_state)
          /\ tasks' = Finished(t)
     ELSE /\ tasks' = Moved(t, "arm")        \* awaiting async_arm / blink.refresh
          /\ UNCHANGED <<latest_data, pubVars, system_state>>
  /\ mqtt_msg' = NoMsg
  /\ UNCHANGED <<lifeVars, cfgVars, session, blink, auth, authed, homescreen, creds_file,
                 cloud_armed, pollVars>>

\* perform_action after arm_system returned: await update_data() (main.py:157)
TasksAfterArmOnlyOk(t, outcome) ==
  IF outcome = "ok" THEN Moved(t, "ud_refresh") ELSE Finished(t)

TasksAfterArm(t, outcome) == Moved(t, "ud_refresh")

\* arm_system: the vendor calls returned ("ok"), async_arm raised, or the
\* refresh after it raised; then update_data is entered.
PerformActionArmed(t, outcome) ==
  /\ t.kind = "perform_action" /\ t.pc = "arm"
  /\ cloud_armed' = IF outcome # "arm_raised" /\ authed
                    THEN (t.arg = "arm") ELSE cloud_armed
  /\ homescreen' = IF outcome = "ok" /\ authed
                   THEN CloudHomescreen(cloud_armed') ELSE homescreen
  /\ tasks' = TasksAfterArm(t, outcome)       \* update_data: await refresh()
  /\ mqtt_msg' = NoMsg
  /\ UNCHANGED <<system_state, latest_data, lifeVars, cfgVars, session, blink,
                 auth, authed, creds_file, pollVars, pubVars>>

\* snap_picture finds its target: a camera object of the library, or a
\* device of the raw homescreen lists (blink_service.py:241-269)
TargetKnownAny(target_id, hs) == TRUE

TargetKnown(target_id, hs) == target_id \in LibCameraIds \cup HomescreenIds(hs)

\* trigger_snap up to its first suspension: blink_service.py:236-269.
TriggerSnapStart(t) ==
  /\ t.kind = "trigger_snap" /\ t.pc = "new"
  /\ IF blink = "None" \/ ~TargetKnown(t.arg, homescreen)
     THEN tasks' = Finished(t)        \* path is None: no update
     ELSE tasks' = Moved(t, "snap")
  /\ mqtt_msg' = NoMsg
  /\ UNCHANGED <<system_state, latest_data, lifeVars, cfgVars, vendorVars,
                 pollVars, pubVars>>

\* snap_picture: the snap command and the refresh returned or one raised.
TriggerSnapDone(t, ok) ==
  /\ t.kind = "trigger_snap" /\ t.pc = "snap"
  /\ VendorRefresh(ok)
  /\ tasks' = IF ok THEN Moved(t, "ud_refresh") ELSE Finished(t)
  /\ mqtt_msg' = NoMsg
  /\ UNCHANGED <<system_state, latest_data, lifeVars, cfgVars, session, blink, auth,
                 authed, creds_file, cloud_armed, pollVars, pubVars>>

\* verify_2fa up to its first suspension: blink_service.py:66.
Verify2faStart(t) ==
  /\ t.kind = "verify_2fa" /\ t.pc = "new"
  /\ IF blink = "None" \/ auth = NoAuth
     THEN tasks' = Finished(t)
     ELSE tasks' = Moved(t, "validate")
  /\ mqtt_msg' = NoMsg
  /\ UNCHANGED <<system_state, latest_data, lifeVars, cfgVars, vendorVars,
                 pollVars, pubVars>>

\* main.py:231-232
StateAfter2FAAlways(ok, st) == "CONNECTED"

StateAfter2FA(ok, st) == IF ok THEN "CONNECTED" ELSE st

\* validate_2fa returned True (the code was accepted, credentials saved) or
\* False; on True verify_2fa marks CONNECTED and enters update_data.
Verify2faDone(t, ok) ==
  /\ t.kind = "verify_2fa" /\ t.pc = "validate"
  /\ IF ok
     THEN /\ authed' = TRUE
          /\ homescreen' = CloudHomescreen(cloud_armed)
          /\ tasks' = Moved(t, "ud_refresh")
     ELSE /\ tasks' = Finished(t)
          /\ UNCHANGED <<authed, homescreen>>
  /\ creds_file' = CredsAfterAuth(ok, creds_file)
  /\ system_state' = StateAfter2FA(ok, system_state)
  /\ mqtt_msg' = NoMsg
  /\ UNCHANGED <<latest_data, lifeVars, cfgVars, session, blink, auth, cloud_armed,
                 pollVars, pubVars>>

\* update_data in a request or command coroutine: refresh() returned or raised.
TaskUpdateRefresh(t, ok) ==
  /\ t.pc = "ud_refresh"
  /\ VendorRefresh(ok)
  /\ latest_data' = IF ok THEN latest_data
                    ELSE LatestAfterFailedRefresh(latest_data, homescreen)
  /\ tasks' = IF ok THEN Moved(t, "ud_status") ELSE Finished(t)
  /\ mqtt_msg' = NoMsg
  /\ UNCHANGED <<system_state, lifeVars, cfgVars, session, blink, auth, authed,
                 creds_file, cloud_armed, pollVars, pubVars>>

\* update_data in a request or command coroutine: main.py:140-142.
TaskUpdateStatus(t, ok) ==
  /\ t.pc = "ud_status"
  /\ UpdateDataStore(ok)
  /\ system_state' = StateAfterUpdate(get_status(blink, RefreshedHomescreen(ok)),
                                      system_state)
  /\ tasks' = Finished(t)
  /\ mqtt_msg' = NoMsg
  /\ UNCHANGED <<lifeVars, cfgVars, session, blink, auth, authed, creds_file,
                 cloud_armed, pollVars>>

\* ================================================================== requests
\* The web server accepts requests once the lifespan has started the poll
\* task, until the lifespan's shutdown phase.
Serving == poll_pc # "start" /\ ~stopped

\* POST /arm
arm_route(action) ==
  /\ Serving /\ NumTasks < MaxTasks
  /\ tasks' = tasks (+) One(Task("perform_action",
                                   IF action = "ARM" THEN "arm" ELSE "disarm"))
  /\ mqtt_msg' = NoMsg
  /\ UNCHANGED <<system_state, latest_data, lifeVars, cfgVars, vendorVars,
                 pollVars, pubVars>>

\* POST /snap/{name}
snap_route(name) ==
  /\ Serving /\ NumTasks < MaxTasks
  /\ tasks' = tasks (+) One(Task("trigger_snap", name))
  /\ mqtt_msg' = NoMsg
  /\ UNCHANGED <<system_state, latest_data, lifeVars, cfgVars, vendorVars,
                 pollVars, pubVars>>

\* POST /verify_2fa
verify_2fa ==
  /\ Serving /\ NumTasks < MaxTasks
  /\ tasks' = tasks (+) One(Task("verify_2fa", "code"))
  /\ mqtt_msg' = NoMsg
  /\ UNCHANGED <<system_state, latest_data, lifeVars, cfgVars, vendorVars,
                 pollVars, pubVars>>

\* POST /save_config
save_config(mqtt_broker, poll_interval) ==
  /\ Serving
  /\ cfg_data' = [cfg_data EXCEPT !["mqtt_broker"] = PyStr(mqtt_broker),
                                  !["poll_interval"] = PyInt(poll_interval)]
  /\ cfg_file' = ConfigSave(cfg_data')
  /\ cfg_op' = "save"
  /\ mqtt_msg' = NoMsg
  /\ UNCHANGED <<system_state, latest_data, lifeVars, vendorVars, pollVars,
                 tasks, pubVars>>

\* MqttHandler.on_message, on the MQTT client's thread.
on_messageDirect(topic, payload) ==
  /\ on_message_calls(topic, payload) # <<>>
  /\ system_state' = "CONNECTED"
  /\ UNCHANGED <<tasks, latest_data, lifeVars, cfgVars, vendorVars,
                 pollVars, pubVars>>

on_message(topic, payload) ==
  /\ NumTasks + Len(on_message_calls(topic, payload)) <= MaxTasks
  /\ tasks' = tasks (+) SeqToBag(on_message_calls(topic, payload))
  /\ UNCHANGED <<system_state, latest_data, lifeVars, cfgVars, vendorVars,
                 pollVars, pubVars>>

\* ============================================================ specification
Outcomes == {"ok", "arm_raised", "refresh_raised"}
LoginResults == {"SUCCESS", "2FA_REQUIRED", "FAILED"}
Brokers == {"192.168.0.100"}
Intervals == {"60", "3600"}

PollStep ==
  \/ PollWake
  \/ PollWakeInterval
  \/ PollLoginLoad
  \/ \E r \in LoginResults : PollLoginStart(r)
  \/ \E ok \in BOOLEAN : PollUpdateRefresh(ok)
  \/ \E ok \in BOOLEAN : PollUpdateStatus(ok)

TaskStep ==
  \/ \E t \in DOMAIN tasks : PerformActionStart(t)
  \/ \E t \in DOMAIN tasks : \E o \in Outcomes : PerformActionArmed(t, o)
  \/ \E t \in DOMAIN tasks : TriggerSnapStart(t)
  \/ \E t \in DOMAIN tasks : \E ok \in BOOLEAN : TriggerSnapDone(t, ok)
  \/ \E t \in DOMAIN tasks : \E ok \in BOOLEAN : TaskUpdateRefresh(t, ok)
  \/ \E t \in DOMAIN tasks : \E ok \in BOOLEAN : TaskUpdateStatus(t, ok)

VerifyStep ==
  \/ \E t \in DOMAIN tasks : Verify2faStart(t)
  \/ \E t \in DOMAIN tasks : \E ok \in BOOLEAN : Verify2faDone(t, ok)

Request ==
  \/ \E a \in {"ARM", "DISARM"} : arm_route(a)
  \/ \E n \in SnapIds : snap_route(n)
  \/ verify_2fa
  \/ \E b \in Brokers : \E p \in Intervals : save_config(b, p)

\* One payload of each kind on_message tells apart: an arm command, a
\* disarm command in lower case, bytes that are no UTF-8.  MessageSeen
\* below delivers every payload of Payloads.
DeliveredPayloads == {ARM, <<"d", "i", "s", "a", "r", "m">>, <<"0xFF">>}

Message ==
  \E t \in Topics : \E p \in DeliveredPayloads :
    on_message(t, p) /\ mqtt_msg' = NoMsg

Next == PollStep \/ TaskStep \/ VerifyStep \/ Request \/ Message

Spec == Init /\ [][Next]_vars


\* The poll task is a task of the event loop: its timers fire and its awaited
\* calls return or raise, so a step it can take is eventually taken.
FairSpec == Spec /\ WF_vars(PollStep)

\* -------------------------------------------------- the MQTT thread, observed
MessageSeen ==
  \E t \in Topics : \E p \in Payloads :
    on_message(t, p) /\ mqtt_msg' = [topic |-> t, payload |-> p]

\* The poll task, the MQTT thread and the coroutines it schedules.
NextSeen == PollStep \/ TaskStep \/ MessageSeen

MsgSpec == Init /\ [][NextSeen]_vars

\* ------------------------------------------------------------- ConfigManager
FileKeyNames == {"mqtt_broker", "poll_interval", "username", "extra"}
Tokens ==
  {[style |-> "plain", text |-> "60"], [style |-> "quoted", text |-> "60"],
   [style |-> "plain", text |-> "host"], [style |-> "plain", text |-> ""],
   [style |-> "quoted", text |-> ""]}

ConfigFiles ==
  {FileMissing, FileGarbage, FileEmpty}
  \cup {FileMap(m) : m \in UNION {[S -> Tokens] :
                       S \in {K \in SUBSET FileKeyNames :
                                K # {} /\ Cardinality(K) <= MaxFileKeys}}}

InitConfig ==
  /\ InitService
  /\ login_args = NoArgs
  /\ cfg_file \in ConfigFiles
  /\ cfg_data = ConfigLoad(ConfigDefaults, cfg_file)
  /\ cfg_op = "init"

serviceVars == <<system_state, latest_data, lifeVars, vendorVars, pollVars,
                 tasks, mqtt_msg, pubVars>>

\* cfg.load()
ConfigManager_load ==
  /\ cfg_data' = ConfigLoad(cfg_data, cfg_file)
  /\ cfg_op' = "load"
  /\ UNCHANGED <<cfg_file, serviceVars>>

\* cfg.save()
ConfigManager_save ==
  /\ cfg_file' = ConfigSave(cfg_data)
  /\ cfg_op' = "save"
  /\ UNCHANGED <<cfg_data, serviceVars>>

\* cfg.data[key] = value
ConfigAssign(key, value) ==
  /\ cfg_data' = [cfg_data EXCEPT ![key] = value]
  /\ cfg_op' = "assign"
  /\ UNCHANGED <<cfg_file, serviceVars>>

AssignedValues == {PyStr("60"), PyInt("60"), PyStr("host")}

NextConfig ==
  \/ ConfigManager_load
  \/ ConfigManager_save
  \/ \E k \in {"mqtt_broker", "poll_interval"} : \E v \in AssignedValues :
       ConfigAssign(k, v)

ConfigSpec == InitConfig /\ [][NextConfig]_vars

\* ------------------------------------------------------------------ shutdown
\* lifespan after its yield (main.py:214-216).  lifespan has no
\* `global running`, so running = False binds a local of lifespan and the
\* module's running keeps its value; then the MQTT thread is stopped and
\* blink_svc.close() closes the aiohttp session.
lifespan_shutdown ==
  /\ Serving
  /\ stopped' = TRUE
  /\ running' = running
  /\ session' = (IF session = "open" THEN "closed" ELSE session)
  /\ mqtt_msg' = NoMsg
  /\ UNCHANGED <<system_state, latest_data, login_args, cfgVars, blink, auth,
                 authed, homescreen, creds_file, cloud_armed, pollVars, tasks,
                 pubVars>>

\* The poll task, the configuration requests and the shutdown.
NextStop ==
  \/ PollStep
  \/ \E b \in Brokers : \E p \in Intervals : save_config(b, p)
  \/ lifespan_shutdown

StopSpec == Init /\ [][NextStop]_vars /\ WF_vars(PollStep)

\* ---------------------------------------------- BlinkService.login's arguments
\* login(username=None, password=None): "" stands for None or the empty string.
Usernames == {"", "user"}
Passwords == {"", "secret"}

InitLogin ==
  /\ InitService
  /\ login_args \in [username : Usernames, password : Passwords]
  /\ cfg_file = FileMissing
  /\ cfg_data = ConfigLoad(ConfigDefaults, cfg_file)
  /\ cfg_op = "init"

\* The poll task's logins and the two-factor requests, for any arguments.
NextLogin == PollStep \/ VerifyStep \/ verify_2fa

LoginSpec == InitLogin /\ [][NextLogin]_vars

\* ---------------------------------------------------------------- get_status
\* Raw homescreen data: at most MaxDevices devices over the four categories,
\* with and without the optional fields, and the networks list.
Devices ==
  {[id |-> 101, name |-> "Front", status |-> "online"],
   [id |-> 202, name |-> "Mini", status |-> "offline", type |-> "owl"],
   [name |-> "Front"]}
NetworkLists ==
  {<<>>, <<[armed |-> FALSE]>>, <<[armed |-> TRUE]>>,
   <<[armed |-> FALSE], [armed |-> TRUE]>>, <<[name |-> "Home"]>>}
Categories == <<"owls", "cameras", "doorbells", "chickadees">>

DeviceSeqs == UNION {[1..n -> Devices] : n \in 0..MaxDevices}

\* The devices of ds whose category, by the assignment c, is the k-th.
CategoryPart(ds, c, k) ==
  LET idx == {i \in DOMAIN ds : c[i] = k}
  IN [j \in 1..Cardinality(idx) |->
        ds[(CHOOSE i \in idx : \A i2 \in idx : i <= i2) + j - 1]]

\* The homescreen dict; a bare one has no key for an empty list.
HomescreenOf(ds, c, nets, bare) ==
  LET full == [key \in {"networks", "owls", "cameras", "doorbells", "chickadees"} |->
                 IF key = "networks" THEN nets
                 ELSE CategoryPart(ds, c,
                        CHOOSE k \in 1..4 : Categories[k] = key)]
  IN IF bare
     THEN [key \in {k \in DOMAIN full : full[k] # <<>>} |-> full[key]]
     ELSE full

Homescreens ==
  {HomescreenOf(ds, c, nets, bare) :
     ds \in DeviceSeqs, nets \in NetworkLists, bare \in BOOLEAN,
     c \in {f \in [1..MaxDevices -> 1..4] : \A i \in 1..(MaxDevices - 1) : f[i] <= f[i + 1]}}

InitStatus ==
  /\ system_state = "STARTING"
  /\ latest_data = Placeholder
  /\ running = TRUE
  /\ stopped = FALSE
  /\ login_args = NoArgs
  /\ blink \in {"None", "Blink"}
  /\ session = (IF blink = "None" THEN "None" ELSE "open")
  /\ auth = NoAuth
  /\ authed = FALSE
  /\ homescreen \in (IF blink = "None" THEN {EmptyHomescreen} ELSE Homescreens)
  /\ creds_file = "absent"
  /\ cloud_armed = FALSE
  /\ poll_pc = "start"
  /\ poll_cont = "none"
  /\ res = "none"
  /\ sleep_dur = 0
  /\ logins = 0
  /\ tasks = EmptyBag
  /\ mqtt_msg = NoMsg
  /\ pub_state = "none"
  /\ pub_status = "none"
  /\ pub_count = 0
  /\ cfg_file = FileMissing
  /\ cfg_data = ConfigLoad(ConfigDefaults, cfg_file)
  /\ cfg_op = "init"

\* latest_data = await blink_svc.get_status() (main.py:140), the vendor
\* library's data as drawn
BlinkService_get_status ==
  /\ latest_data' = get_status(blink, homescreen)
  /\ UNCHANGED <<system_state, lifeVars, cfgVars, vendorVars, pollVars, tasks,
                 mqtt_msg, pubVars>>

StatusSpec == InitStatus /\ [][BlinkService_get_status]_vars


\* ==================================================================== claims
Sleeps == {"sleep_2fa", "sleep_retry", "sleep_interval"}

\* blink_svc.login() is called in this step (the poll task is its only caller).
LoginCalled == logins' # logins

\* blink_svc.login() returns in this step; its result is res'.
LoginReturned ==
  \/ poll_pc = "login_start" /\ poll_pc' # "login_start"
  \/ poll_pc = "login_load" /\ poll_pc' \notin {"login_load", "login_start"}
  \/ LoginCalled /\ poll_pc' \notin {"login_load", "login_start"}

\* C1: every login of the poll task decides the next system state from its
\* result: SUCCESS gives CONNECTED and the poll task is inside update_data
\* before it waits again, 2FA_REQUIRED gives WAITING_2FA, anything else gives
\* ERROR; and login is called only when the state is neither CONNECTED nor
\* WAITING_2FA.
C1_LoginDecidesState ==
  [][/\ LoginReturned =>
          /\ res' \in {"SUCCESS", "2FA_REQUIRED", "FAILED", "CONFIG_REQUIRED"}
          /\ res' = "SUCCESS" =>
               system_state' = "CONNECTED" /\ poll_pc' = "ud_refresh"
                 /\ poll_cont' = "after_login"
          /\ res' = "2FA_REQUIRED" => system_state' = "WAITING_2FA"
          /\ res' \in {"FAILED", "CONFIG_REQUIRED"} => system_state' = "ERROR"
     /\ LoginCalled => system_state \notin {"CONNECTED", "WAITING_2FA"}
     /\ (poll_pc' \in Sleeps /\ poll_cont = "after_login") =>
          poll_pc \in {"ud_refresh", "ud_status"}]_vars

C1_Witness ==
  /\ res = "SUCCESS" /\ system_state = "CONNECTED"
  /\ poll_pc = "sleep_interval" /\ latest_data # Placeholder

\* C2: while the state is WAITING_2FA the poll task is asleep, and no step
\* taken from such a state calls login, replaces the Auth object or puts the
\* poll task anywhere but in a sleep.
C2_PausedWhileWaiting2FA ==
  /\ [](system_state = "WAITING_2FA" => poll_pc \in {"sleep_2fa", "sleep_interval"})
  /\ [][system_state = "WAITING_2FA" =>
          /\ ~LoginCalled
          /\ auth' = auth
          /\ poll_pc' \in {"sleep_2fa", "sleep_interval"}]_vars

C2_Witness ==
  /\ system_state = "WAITING_2FA" /\ poll_pc = "sleep_2fa"
  /\ auth # NoAuth /\ \E t \in DOMAIN tasks : t.pc = "ud_refresh"

\* The poll task begins an asyncio.sleep in this step.
BeginsWait == poll_pc' \in Sleeps /\ pollVars' # pollVars

\* C3: the poll task's waits are fixed by the lifecycle state: 30 s after a
\* hard login failure, 5 s for every wait begun while the state is
\* WAITING_2FA (the first one after 2FA_REQUIRED included), and the
\* configured poll_interval for a wait begun while CONNECTED.
C3_WaitsByState ==
  [][BeginsWait =>
       /\ (LoginReturned /\ res' \in {"FAILED", "CONFIG_REQUIRED"}) =>
            sleep_dur' = RETRY_DELAY
       /\ system_state' = "WAITING_2FA" => sleep_dur' = TWO_FA_WAIT
       /\ system_state' = "CONNECTED" => sleep_dur' = PollInterval(cfg_data)]_vars

\* The refresh of the keep-alive update_data raises in this step.
KeepAliveRefreshRaised ==
  /\ poll_pc = "ud_refresh" /\ poll_cont = "after_poll"
  /\ poll_pc' \notin {"ud_refresh", "ud_status"}

\* C4: when the refresh of the scheduled keep-alive update raises while the
\* state is CONNECTED, the state becomes ERROR (and login is retried).
C4_FailedKeepAliveGivesError ==
  [][(KeepAliveRefreshRaised /\ system_state = "CONNECTED") =>
       system_state' = "ERROR"]_vars

\* C5: whenever the state is ERROR or STARTING the poll task eventually
\* calls login again, and after a login that returned SUCCESS the state is
\* eventually CONNECTED.
C5_EventuallyLoginAgain ==
  /\ \A b \in {0, 1} :
       (system_state \in {"ERROR", "STARTING"} /\ logins = b) ~> (logins # b)
  /\ (poll_pc = "ud_refresh" /\ poll_cont = "after_login")
       ~> (system_state = "CONNECTED")

\* The statuses get_status can assemble.
AssembledStatuses ==
  {get_status(b, h) : b \in {"None", "Blink"},
                      h \in {EmptyHomescreen, CloudHomescreen(TRUE),
                             CloudHomescreen(FALSE)}}

\* A coroutine leaves update_data in this step because its refresh raised.
UpdateRefreshRaised ==
  \/ poll_pc = "ud_refresh" /\ poll_pc' \notin {"ud_refresh", "ud_status"}
  \/ \E t \in DOMAIN tasks : t.pc = "ud_refresh" /\ tasks' = Finished(t)

\* A coroutine whose refresh returned finishes update_data in this step.
UpdateAfterRefreshReturned ==
  \/ poll_pc = "ud_status" /\ poll_pc' # "ud_status"
  \/ \E t \in DOMAIN tasks : t.pc = "ud_status" /\ tasks' = Finished(t)
  \/ /\ blink = "None"
     /\ \E t \in DOMAIN tasks :
          t.kind = "perform_action" /\ t.pc = "new" /\ tasks' = Finished(t)

\* C6: latest_data is the placeholder or a status the assembler returned
\* after a refresh that returned: it changes only in the step that ends an
\* update whose refresh returned, to the status of the vendor state of that
\* moment; an update whose refresh raises leaves latest_data and
\* system_state alone and publishes nothing.
C6_StatusFromReturnedRefresh ==
  /\ [](latest_data \in {Placeholder} \cup AssembledStatuses)
  /\ [][/\ latest_data' # latest_data =>
             /\ UpdateAfterRefreshReturned
             /\ latest_data' = get_status(blink, homescreen')
        /\ pubVars' # pubVars => UpdateAfterRefreshReturned
        /\ UpdateRefreshRaised =>
             UNCHANGED <<latest_data, system_state, pubVars>>]_vars

C6_Witness ==
  /\ res = "SUCCESS" /\ poll_pc = "sleep_interval" /\ system_state = "CONNECTED"
  /\ latest_data = Placeholder /\ pub_state = "none" /\ tasks = EmptyBag

\* C7: after the first login has returned the state is one of connected,
\* waiting-for-two-factor, config-required, error; a login that found no
\* credentials (CONFIG_REQUIRED) puts the system in the config-required state.
C7_ConfigRequiredState ==
  [][LoginReturned =>
       /\ system_state' \in {"CONNECTED", "WAITING_2FA", "CONFIG_REQUIRED", "ERROR"}
       /\ res' = "CONFIG_REQUIRED" => system_state' = "CONFIG_REQUIRED"]_vars

\* C8: a step of the MQTT thread writes neither system_state nor latest_data,
\* calls nothing of the Blink service and publishes nothing: it only adds
\* not yet started perform_action / trigger_snap coroutines to the loop.
C8_MqttThreadOnlyEnqueues ==
  [][mqtt_msg' # NoMsg =>
       /\ UNCHANGED <<system_state, latest_data, lifeVars, vendorVars, pubVars,
                      pollVars, cfgVars>>
       /\ \A t \in DOMAIN tasks' :
            tasks'[t] # (IF t \in DOMAIN tasks THEN tasks[t] ELSE 0) =>
              /\ t.kind \in {"perform_action", "trigger_snap"}
              /\ t.pc = "new"
       /\ \A t \in DOMAIN tasks : t \in DOMAIN tasks' /\ tasks'[t] >= tasks[t]]_vars

C8_Witness ==
  /\ mqtt_msg # NoMsg /\ tasks # EmptyBag /\ system_state = "STARTING"

\* What the claim expects one message to schedule.
ArmPayloads ==
  {ARM, <<"a", "r", "m">>, ARM_AWAY, <<"A", "r", "m", "_", "a", "w", "a", "y">>}
DisarmPayloads == {DISARM, <<"d", "i", "s", "a", "r", "m">>}
ExpectedCalls(m) ==
  IF m.topic = CommandTopic
  THEN (IF m.payload \in ArmPayloads THEN One(Task("perform_action", "arm"))
        ELSE IF m.payload \in DisarmPayloads THEN One(Task("perform_action", "disarm"))
        ELSE EmptyBag)
  ELSE One(Task("trigger_snap", m.topic[3]))

\* C10: a command-topic message schedules one arm for ARM / ARM_AWAY, one
\* disarm for DISARM (case-insensitively) and nothing otherwise, never a
\* snapshot; a message on blink/camera/<id>/snap schedules exactly one
\* snapshot for <id>; no message changes any other state.
C10_MessageSchedulesOne ==
  [][mqtt_msg' # NoMsg =>
       /\ tasks' = tasks (+) ExpectedCalls(mqtt_msg')
       /\ UNCHANGED <<system_state, latest_data, vendorVars, pubVars>>]_vars

\* C9: save then load leaves the record unchanged (so load, save, load is
\* one load); load keeps the value of every key the file does not have and
\* takes the file's value for the others; a missing or unreadable file
\* leaves the record, and after construction the defaults, unchanged.
FileKeys(f) == IF f.kind = "map" THEN DOMAIN f.m ELSE {}

C9_ConfigRoundTrip ==
  /\ [](cfg_op = "init" =>
          /\ \A k \in DOMAIN ConfigDefaults \ FileKeys(cfg_file) :
               cfg_data[k] = ConfigDefaults[k]
          /\ cfg_file.kind \in {"missing", "garbage"} => cfg_data = ConfigDefaults)
  /\ [][/\ (cfg_op = "save" /\ cfg_op' = "load") => cfg_data' = cfg_data
        /\ cfg_op' = "save" => cfg_data' = cfg_data
        /\ cfg_op' = "load" =>
             /\ DOMAIN cfg_data' = DOMAIN cfg_data \cup FileKeys(cfg_file)
             /\ \A k \in DOMAIN cfg_data \ FileKeys(cfg_file) :
                  cfg_data'[k] = cfg_data[k]
             /\ cfg_file.kind \in {"missing", "garbage"} =>
                  cfg_data' = cfg_data]_vars

C9_Witness ==
  /\ cfg_op = "load" /\ cfg_file = ConfigSave(cfg_data)
  /\ cfg_data["mqtt_broker"] = PyStr("60") /\ "extra" \in DOMAIN cfg_data

\* validate_2fa returns in this step, with True / with False.
TwoFAValidated ==
  \E t \in DOMAIN tasks :
    /\ t.kind = "verify_2fa" /\ t.pc = "validate"
    /\ tasks' = Moved(t, "ud_refresh")

TwoFARejected ==
  \E t \in DOMAIN tasks : t.kind = "verify_2fa" /\ tasks' = Finished(t)

\* C11: when the submitted two-factor code validates, system_state becomes
\* CONNECTED and the request is inside update_data before it completes; when
\* validation fails (the vendor rejects or raises, or there is no Blink
\* object or Auth object) the request completes with system_state and
\* latest_data unchanged, so WAITING_2FA stays WAITING_2FA; a two-factor
\* request completes only in one of these two ways.
C11_TwoFactorSubmission ==
  [][/\ TwoFAValidated =>
          /\ system_state' = "CONNECTED"
          /\ \E u \in DOMAIN tasks' : u.kind = "update_data" /\ u.pc = "ud_refresh"
     /\ TwoFARejected => UNCHANGED <<system_state, latest_data, pubVars>>
     /\ \A t \in DOMAIN tasks :
          (t.kind = "verify_2fa" /\ t \notin DOMAIN tasks') =>
             \/ TwoFARejected
             \/ TwoFAValidated
             \/ \E u \in DOMAIN tasks' :
                  u.kind = "verify_2fa" /\ u.pc = "validate"]_vars

\* A validated code after a login that asked for one, and its update done.
C11_Witness ==
  /\ res = "2FA_REQUIRED" /\ authed /\ system_state = "CONNECTED"
  /\ latest_data.keys = StatusKeys /\ tasks = EmptyBag

\* A coroutine suspended in update_data's await of blink_svc.refresh().
InUpdate == [kind |-> "update_data", arg |-> "", pc |-> "ud_refresh"]

\* A perform_action coroutine that has not started / is inside arm_system
\* runs in this step.
ActionStarted ==
  \E t \in DOMAIN tasks :
    /\ t.kind = "perform_action" /\ t.pc = "new"
    /\ CopiesIn(t, tasks') < CopiesIn(t, tasks)

ArmReturned ==
  \E t \in DOMAIN tasks :
    /\ t.kind = "perform_action" /\ t.pc = "arm"
    /\ CopiesIn(t, tasks') < CopiesIn(t, tasks)

\* C12: every arm / disarm coroutine runs arm_system and then one
\* update_data, whatever arm_system's outcome: started without a Blink
\* object it runs the whole update in that step, otherwise it next suspends
\* inside arm_system; when arm_system returns or has swallowed an exception
\* the coroutine is inside update_data; the cloud's arm state changes only
\* in a step of arm_system, never in the update that follows.
C12_ArmThenUpdate ==
  /\ [](\A t \in DOMAIN tasks :
          t.kind = "perform_action" => t.pc \in {"new", "arm"})
  /\ [][/\ ActionStarted =>
             \/ /\ blink = "None"
                /\ latest_data' = get_status(blink, homescreen)
             \/ \E u \in DOMAIN tasks' :
                  /\ u.kind = "perform_action" /\ u.pc = "arm"
                  /\ CopiesIn(u, tasks') = CopiesIn(u, tasks) + 1
        /\ ArmReturned => CopiesIn(InUpdate, tasks') = CopiesIn(InUpdate, tasks) + 1
        /\ cloud_armed' # cloud_armed => ArmReturned]_vars

\* The arm call reached the cloud, its refresh raised, and the update follows.
C12_Witness ==
  /\ authed /\ cloud_armed /\ ~homescreen.networks[1].armed
  /\ InUpdate \in DOMAIN tasks

\* C13: system_state becomes CONNECTED only in the step in which login
\* returns SUCCESS or a two-factor code validates, and a system in
\* WAITING_2FA leaves that state only in the step in which a code validates.
C13_ConnectedOnlyByLoginOr2FA ==
  [][/\ (system_state # "CONNECTED" /\ system_state' = "CONNECTED") =>
          \/ LoginReturned /\ res' = "SUCCESS"
          \/ TwoFAValidated
     /\ (system_state = "WAITING_2FA" /\ system_state' # "WAITING_2FA") =>
          TwoFAValidated]_vars

\* What the status entry e must say of the raw device dev.
EntryOf(e, dev) ==
  /\ e.id = DevId(dev)
  /\ e.online = ~("status" \in DOMAIN dev /\ dev.status = "offline")

\* C14: the assembled status has one cameras entry per device of the
\* homescreen lists owls, cameras, doorbells, chickadees, in that order,
\* each with the device's id as a string and online unless the device's
\* status is 'offline'; armed is true exactly when some network has armed
\* true; without a Blink object the status is the empty dict.
C14_StatusIsUnion ==
  latest_data # Placeholder =>
    IF blink = "None" THEN latest_data.keys = {}
    ELSE
      LET o == HsGet(homescreen, "owls")
          c == HsGet(homescreen, "cameras")
          d == HsGet(homescreen, "doorbells")
          k == HsGet(homescreen, "chickadees")
          cams == latest_data.cameras
      IN /\ latest_data.keys = StatusKeys
         /\ Len(cams) = Len(o) + Len(c) + Len(d) + Len(k)
         /\ \A i \in DOMAIN o : EntryOf(cams[i], o[i])
         /\ \A i \in DOMAIN c : EntryOf(cams[Len(o) + i], c[i])
         /\ \A i \in DOMAIN d : EntryOf(cams[Len(o) + Len(c) + i], d[i])
         /\ \A i \in DOMAIN k : EntryOf(cams[Len(o) + Len(c) + Len(d) + i], k[i])
         /\ latest_data.armed <=>
              \E i \in DOMAIN HsGet(homescreen, "networks") :
                /\ "armed" \in DOMAIN homescreen.networks[i]
                /\ homescreen.networks[i].armed = TRUE
         /\ latest_data.status_str = (IF latest_data.armed THEN "Armed" ELSE "Disarmed")

\* An offline owl listed before a doorbell without id or status, armed.
C14_Witness ==
  /\ latest_data.keys = StatusKeys /\ latest_data.armed
  /\ Len(latest_data.cameras) = 2
  /\ latest_data.cameras[1].id = "202" /\ ~latest_data.cameras[1].online
  /\ latest_data.cameras[2].id = "None" /\ latest_data.cameras[2].online
  /\ HsGet(homescreen, "doorbells") # <<>>

\* The alarm state that matches a status record.
AlarmState(ld) == IF "armed" \in ld.keys /\ ld.armed THEN "armed_away" ELSE "disarmed"

SnapReturnedNone ==
  \E t \in DOMAIN tasks : t.kind = "trigger_snap" /\ tasks' = Finished(t)

SnapReturnedPath ==
  \E t \in DOMAIN tasks : t.kind = "trigger_snap" /\ tasks' = Moved(t, "ud_refresh")

\* C17: a snapshot coroutine sends the snap command only with a Blink
\* object and a target id that is a library camera's or a raw homescreen
\* device's; snap_picture returns a path, and update_data follows, only
\* when that command and the refresh after it returned; for an unknown id,
\* no Blink object or a raising snap the coroutine ends with latest_data,
\* system_state and the published messages unchanged.
C17_SnapOnlyKnownTarget ==
  /\ [](\A t \in DOMAIN tasks :
          t.kind = "trigger_snap" => t.pc \in {"new", "snap"})
  /\ [][/\ \A t \in DOMAIN tasks :
             (t.kind = "trigger_snap" /\ t.pc = "new"
                /\ CopiesIn(t, tasks') < CopiesIn(t, tasks)) =>
               IF /\ blink # "None"
                  /\ \/ authed /\ t.arg = "101"
                     \/ \E i \in DOMAIN RawDevices(homescreen) :
                          DevId(RawDevices(homescreen)[i]) = t.arg
               THEN tasks' = Moved(t, "snap")
               ELSE tasks' = Finished(t)
        /\ SnapReturnedPath =>
             \E t \in DOMAIN tasks :
               /\ t.kind = "trigger_snap" /\ t.pc = "snap"
               /\ tasks' = Moved(t, "ud_refresh")
        /\ SnapReturnedNone =>
             UNCHANGED <<latest_data, system_state, pubVars>>]_vars

\* The snap command sent for a device known from the raw lists only.
C17_Witness ==
  \E t \in DOMAIN tasks : t.kind = "trigger_snap" /\ t.pc = "snap" /\ t.arg = "202"

\* A username/password pair was supplied to login.
PairSupplied == login_args.username # "" /\ login_args.password # ""

\* login has its auth_data in this step: the file does not exist at the
\* call, or json_load returns.
LoadDecided ==
  \/ LoginCalled /\ creds_file = "absent"
  \/ poll_pc = "login_load" /\ poll_pc' # "login_load"

C19_PollStopsOnShutdown ==
  /\ [](stopped => ~running)
  /\ [][stopped => /\ ~LoginCalled
                   /\ poll_pc' = "ud_refresh" => poll_pc = "ud_refresh"]_vars
  /\ stopped ~> (poll_pc = "done")

====
